---- MODULE Spec2Model ----
(***************************************************************************)
(* Model of pydrone/arnetwork.py: the ARDroneNetworkProcess ("Multiplexer") *)
(* that drains the nav and video UDP sockets and forwards decoded values    *)
(* over two pipes, and the IPCThread ("Relay") that drains those pipes and  *)
(* publishes the latest value in drone.navdata / drone.image.               *)
(*                                                                           *)
(* A datagram is [src, seq, wf]: the socket it arrived on, its arrival      *)
(* number on that socket, and whether its bytes decode without an           *)
(* exception.  A value on a pipe is [type, seq_nr, from].                   *)
(***************************************************************************)
EXTENDS Integers, Sequences, FiniteSets, TLC

\* ------------------------------------------------------------------ bounds
MaxEvents == 3      \* network events: datagrams that arrive, spurious
                    \* readiness reports and receive errors, in total
PipeCapacity == 2   \* values a pipe's buffer holds before send() blocks

\* ------------------------------------------------------------- data values
Sockets == {"nav", "video"}

\* `data` before its first assignment (a local of run that is not yet bound)
UnboundData == [src |-> "none", seq |-> 0, wf |-> FALSE]

\* a decoded-value local before its first assignment
NoValue == [type |-> "none", seq_nr |-> 0, from |-> "none"]

\* what the Relay holds for a channel: the value and its position in the
\* order in which the Relay took values off that channel (0: nothing yet)
NoItem == [val |-> NoValue, idx |-> 0]

Datagram(s, n, w) == [src |-> s, seq |-> n, wf |-> w]

\* decode_navdata: raises struct.error on a packet it cannot unpack,
\* otherwise returns the dict built from the packet's words (seq_nr is _[2])
decode_navdata(packet) ==
    IF packet.wf
    THEN [raised |-> FALSE,
          val |-> [type |-> "navdata", seq_nr |-> packet.seq, from |-> packet.src]]
    ELSE [raised |-> TRUE, val |-> NoValue]

\* read_picture (arvideo): fails on malformed input, otherwise returns
\* (w, h, image, t); the Multiplexer keeps the image
read_picture(packet) ==
    IF packet.wf
    THEN [raised |-> FALSE,
          val |-> [type |-> "image", seq_nr |-> packet.seq, from |-> packet.src]]
    ELSE [raised |-> TRUE, val |-> NoValue]

decode(s, packet) == IF s = "nav" THEN decode_navdata(packet) ELSE read_picture(packet)

\* the sub-sequence of `order` whose elements are in `ready` (select keeps
\* the order of the list it was given)
RECURSIVE Filter(_, _)
Filter(order, ready) ==
    IF order = <<>> THEN <<>>
    ELSE IF Head(order) \in ready
         THEN <<Head(order)>> \o Filter(Tail(order), ready)
         ELSE Filter(Tail(order), ready)

\* ---------------------------------------------------------------- state
VARIABLES
    sock,        \* sock[s]: datagrams queued on socket s
    sockOpen,    \* sockOpen[s]: socket s has not been closed
    arrived,     \* arrived[s]: datagrams that have arrived on socket s
    faults,      \* spurious readiness reports and receive errors so far
    comPipe,     \* stop tokens pending on the control pipe
    stopSent,    \* the control signal has been sent
    pipe,        \* pipe[s]: values sent by the Multiplexer, not yet received
    pc,          \* Multiplexer: position in run
    inputready,  \* Multiplexer: rest of the select result being iterated
    data,        \* Multiplexer: local `data`
    decoded,     \* Multiplexer: decoded[s], locals `navdata` / `image`
    stopping,    \* Multiplexer: local `stopping`
    exc,         \* Multiplexer: exception that ended run, or "none"
    rcv,         \* outcome of the latest recv of the current drain
    k0,          \* datagrams queued on the socket when its drain started
    nread,       \* datagrams read in the current drain
    rpc,         \* Relay: position in run
    rInput,      \* Relay: rest of the select result being iterated
    rLocal,      \* Relay: rLocal[s], locals `navdata` / `image`
    rStopping,   \* Relay: self.stopping
    drone,       \* drone[s]: drone.navdata / drone.image
    taken,       \* taken[s]: number of values the Relay took off pipe s
    idle,        \* the Relay is back at the top of its loop from a cycle
                 \* whose select found no pipe ready
    pubAfterStop, \* pubAfterStop[s]: times the Relay has assigned drone
                 \* field s since stop() set the flag
    packet,      \* decode_navdata: its argument, a sequence of bytes
    offset,      \* decode_navdata: local `offset`
    navdata,     \* decode_navdata: local `data`, the dict being built
    dpc,         \* decode_navdata: "idle", "header", "loop", "returned",
                 \* or "raised" when an exception left the function
    input        \* what `packet` was built from: the state word's set bits,
                 \* the records, and the number of bytes cut off the end

vars == <<sock, sockOpen, arrived, faults, comPipe, stopSent, pipe,
          pc, inputready, data, decoded, stopping, exc, rcv, k0, nread,
          rpc, rInput, rLocal, rStopping, drone, taken, idle, pubAfterStop,
          packet, offset, navdata, dpc, input>>

envVars   == <<sock, sockOpen, arrived, faults, comPipe, stopSent>>
muxVars   == <<pc, inputready, data, decoded, stopping, exc, rcv, k0, nread>>
relayVars == <<rpc, rInput, rLocal, rStopping, drone, taken, idle, pubAfterStop>>
decVars   == <<packet, offset, navdata, dpc, input>>

\* the dict of decode_navdata before line 59 has built it
NoNavdata == [drone_state |-> <<>>, header |-> <<>>, seq_nr |-> <<>>,
              vision_flag |-> <<>>, options |-> <<>>]

\* no packet has been handed to decode_navdata
NoInput == [bits |-> {}, recs |-> <<>>, cut |-> 0]

\* the processes as they are when run starts
ProcInit ==
    /\ sock = [s \in Sockets |-> <<>>]
    /\ sockOpen = [s \in Sockets |-> TRUE]
    /\ arrived = [s \in Sockets |-> 0]
    /\ faults = 0
    /\ comPipe = 0
    /\ stopSent = FALSE
    /\ pipe = [s \in Sockets |-> <<>>]
    /\ pc = "select"
    /\ inputready = <<>>
    /\ data = UnboundData
    /\ decoded = [s \in Sockets |-> NoValue]
    /\ stopping = FALSE
    /\ exc = "none"
    /\ rcv = "none"
    /\ k0 = 0
    /\ nread = 0
    /\ rpc = "top"
    /\ rInput = <<>>
    /\ rLocal = [s \in Sockets |-> NoItem]
    /\ rStopping = FALSE
    /\ drone = [s \in Sockets |-> NoItem]
    /\ taken = [s \in Sockets |-> 0]
    /\ idle = FALSE
    /\ pubAfterStop = [s \in Sockets |-> 0]

\* decode_navdata is not being followed
DecIdle ==
    /\ packet = <<>>
    /\ offset = 0
    /\ navdata = NoNavdata
    /\ dpc = "idle"
    /\ input = NoInput

Init == ProcInit /\ DecIdle

\* ----------------------------------------------------------- environment
\* network events so far
Events == arrived["nav"] + arrived["video"] + faults

\* a datagram from the drone is queued on socket s
Arrive(s) ==
    /\ sockOpen[s]
    /\ Events < MaxEvents
    /\ \E w \in BOOLEAN :
         sock' = [sock EXCEPT ![s] = Append(@, Datagram(s, arrived[s] + 1, w))]
    /\ arrived' = [arrived EXCEPT ![s] = @ + 1]
    /\ UNCHANGED <<sockOpen, faults, comPipe, stopSent, pipe>>
    /\ UNCHANGED muxVars
    /\ UNCHANGED relayVars
    /\ UNCHANGED decVars

\* the consumer sends the one-shot control signal on com_pipe
SendStop ==
    /\ ~stopSent
    /\ stopSent' = TRUE
    /\ comPipe' = comPipe + 1
    /\ UNCHANGED <<sock, sockOpen, arrived, faults, pipe>>
    /\ UNCHANGED muxVars
    /\ UNCHANGED relayVars
    /\ UNCHANGED decVars

\* --------------------------------------------------------- Multiplexer
\* the list handed to select, in its order
SelectOrder == <<"nav", "video", "com">>

\* a loop that does not test the flag
WhileCond_Forever(st) == TRUE

\* `while not stopping`
WhileCond(st) == ~st

\* a drain that keeps the first datagram it read from a socket
DrainKeep_First(old, new) == IF old.src = new.src THEN old ELSE new

\* `data = s.recv(65535)`: the local takes the datagram just read
DrainKeep(old, new) == new

\* the drain loop `while 1: ... recv ...` goes round again after a datagram
DrainAgain(s) == s \o "_recv"

\* a decode whose exception is swallowed and followed by the send
AfterDecode_Swallow(s, r) == s \o "_send"

\* the pc after the decoder returned or raised: an exception leaves run,
\* a result goes on to the send
AfterDecode(s, r) == IF r.raised THEN "crashed" ELSE s \o "_send"

\* `for i in inputready` with `lst` left to iterate and `stopping` = st:
\* where run goes next.  The com branch receives the token, sets stopping
\* and breaks; an exhausted list returns to the `while not stopping` test.
Dispatch(lst, st) ==
    IF lst = <<>>
    THEN [pc |-> IF WhileCond(st) THEN "select" ELSE "close",
          rest |-> <<>>, stopping |-> st, com |-> 0]
    ELSE IF Head(lst) = "com"
    THEN [pc |-> IF WhileCond(TRUE) THEN "select" ELSE "close",
          rest |-> <<>>, stopping |-> TRUE, com |-> 1]
    ELSE [pc |-> Head(lst) \o "_recv",
          rest |-> Tail(lst), stopping |-> st, com |-> 0]

\* the effect of Dispatch on the Multiplexer's loop state
Goto(lst) ==
    LET d == Dispatch(lst, stopping) IN
    /\ pc' = d.pc
    /\ inputready' = d.rest
    /\ stopping' = d.stopping
    /\ comPipe' = comPipe - d.com
    /\ rcv' = "none"
    /\ nread' = 0
    /\ k0' = IF d.pc \in {"nav_recv", "video_recv"} THEN Len(sock[Head(lst)]) ELSE 0

\* select([nav_socket, video_socket, self.com_pipe], [], []): blocks until
\* something is ready; a socket can be reported ready with nothing to read.
\* The for loop then starts on the first ready input.
MuxSelect ==
    /\ pc = "select"
    /\ \E sp \in SUBSET Sockets :
         /\ Events + Cardinality(sp) <= MaxEvents
         /\ \A s \in sp : sock[s] = <<>>
         /\ LET ready == {s \in Sockets : sock[s] # <<>>} \cup sp
                         \cup (IF comPipe > 0 THEN {"com"} ELSE {})
            IN  /\ ready # {}
                /\ Goto(Filter(SelectOrder, ready))
         /\ faults' = faults + Cardinality(sp)
    /\ UNCHANGED <<sock, sockOpen, arrived, stopSent, pipe>>
    /\ UNCHANGED <<data, decoded, exc>>
    /\ UNCHANGED relayVars
    /\ UNCHANGED decVars

\* the drain has ended with `data` as it is: decode it
\* (`navdata = decode_navdata(data)` / `w, h, image, t = read_picture(data)`)
DecodeData(s) ==
    IF data = UnboundData
    THEN /\ pc' = "crashed"
         /\ exc' = "UnboundLocalError"
         /\ UNCHANGED decoded
    ELSE LET r == decode(s, data) IN
         /\ pc' = AfterDecode(s, r)
         /\ exc' = IF r.raised THEN "DecodeError" ELSE exc
         /\ decoded' = IF r.raised THEN decoded
                       ELSE [decoded EXCEPT ![s] = r.val]

\* one pass of `while 1: try: data = s.recv(65535) except IOError: break`;
\* after the break the retained datagram is decoded.  IOError covers every
\* socket error, not only "no data available".
MuxRecv(s) ==
    /\ pc = s \o "_recv"
    /\ \/ /\ sock[s] # <<>>
          /\ data' = DrainKeep(data, Head(sock[s]))
          /\ sock' = [sock EXCEPT ![s] = Tail(@)]
          /\ rcv' = "data"
          /\ nread' = nread + 1
          /\ pc' = DrainAgain(s)
          /\ UNCHANGED <<faults, decoded, exc>>
       \/ /\ sock[s] = <<>>
          /\ rcv' = "EWOULDBLOCK"
          /\ DecodeData(s)
          /\ UNCHANGED <<sock, data, nread, faults>>
       \/ /\ Events < MaxEvents
          /\ faults' = faults + 1
          /\ rcv' = "EOTHER"
          /\ DecodeData(s)
          /\ UNCHANGED <<sock, data, nread>>
    /\ UNCHANGED <<sockOpen, arrived, comPipe, stopSent, pipe>>
    /\ UNCHANGED <<inputready, stopping, k0>>
    /\ UNCHANGED relayVars
    /\ UNCHANGED decVars

\* a pipe that hands over the newest value first
PipePut_Front(q, v) == <<v>> \o q

\* a pipe delivers in the order of the sends: the value joins the end
PipePut(q, v) == Append(q, v)

\* `self.nav_pipe.send(navdata)` / `self.video_pipe.send(image)`: the write
\* completes once the pipe's buffer has room; the for loop then goes on
MuxSend(s) ==
    /\ pc = s \o "_send"
    /\ Len(pipe[s]) < PipeCapacity
    /\ pipe' = [pipe EXCEPT ![s] = PipePut(@, decoded[s])]
    /\ Goto(inputready)
    /\ UNCHANGED <<sock, sockOpen, arrived, faults, stopSent>>
    /\ UNCHANGED <<data, decoded, exc>>
    /\ UNCHANGED relayVars
    /\ UNCHANGED decVars

\* video_socket.close(); nav_socket.close(); run returns
MuxClose ==
    /\ pc = "close"
    /\ sockOpen' = [s \in Sockets |-> FALSE]
    /\ pc' = "done"
    /\ UNCHANGED <<sock, arrived, faults, comPipe, stopSent, pipe>>
    /\ UNCHANGED <<inputready, data, decoded, stopping, exc, rcv, k0, nread>>
    /\ UNCHANGED relayVars
    /\ UNCHANGED decVars

MuxStep ==
    \/ MuxSelect
    \/ \E s \in Sockets : MuxRecv(s)
    \/ \E s \in Sockets : MuxSend(s)
    \/ MuxClose

\* --------------------------------------------------------------- Relay
\* the list handed to select, in its order
RelaySelectOrder == <<"video", "nav">>

\* a select that reports every pipe, pending value or not
RelayReady_Always(s) == TRUE

\* a pipe end is readable when a value is pending on it
RelayReady(s) == pipe[s] # <<>>

\* a drain that keeps the first value it ever received
DrainTake_First(old, item) == IF old.idx = 0 THEN item ELSE old

\* `image = self.drone.video_pipe.recv()`: the local takes the received value
DrainTake(old, item) == item

\* `for i in inputready` with `lst` left to iterate
RelayGoto(lst) ==
    IF lst = <<>>
    THEN /\ rpc' = "top"
         /\ rInput' = <<>>
    ELSE /\ rpc' = Head(lst) \o "_poll"
         /\ rInput' = Tail(lst)

\* a loop that does not test the flag
RelayWhileCond_Forever(st) == TRUE

\* the condition of `while not self.stopping`
RelayWhileCond(st) == ~st

\* `while not self.stopping`
RelayTop ==
    /\ rpc = "top"
    /\ rpc' = IF RelayWhileCond(rStopping) THEN "select" ELSE "done"
    /\ idle' = FALSE
    /\ UNCHANGED envVars
    /\ UNCHANGED pipe
    /\ UNCHANGED muxVars
    /\ UNCHANGED <<rInput, rLocal, rStopping, drone, taken, pubAfterStop>>
    /\ UNCHANGED decVars

\* select([video_pipe, nav_pipe], [], [], 1): returns the ready pipes, or
\* nothing when the timeout passes; the for loop starts on the first one
RelaySelect ==
    /\ rpc = "select"
    /\ LET lst == Filter(RelaySelectOrder, {s \in Sockets : RelayReady(s)})
       IN  /\ RelayGoto(lst)
           /\ idle' = (lst = <<>>)
    /\ UNCHANGED envVars
    /\ UNCHANGED pipe
    /\ UNCHANGED muxVars
    /\ UNCHANGED <<rLocal, rStopping, drone, taken, pubAfterStop>>
    /\ UNCHANGED decVars

\* `while pipe.poll(): x = pipe.recv()` and then `self.drone.x = x`
RelayPoll(s) ==
    /\ rpc = s \o "_poll"
    /\ IF pipe[s] # <<>>
       THEN /\ rLocal' = [rLocal EXCEPT
                  ![s] = DrainTake(@, [val |-> Head(pipe[s]), idx |-> taken[s] + 1])]
            /\ taken' = [taken EXCEPT ![s] = @ + 1]
            /\ pipe' = [pipe EXCEPT ![s] = Tail(@)]
            /\ UNCHANGED <<rpc, rInput, drone, pubAfterStop>>
       ELSE IF rLocal[s] = NoItem
            THEN /\ rpc' = "crashed"
                 /\ UNCHANGED <<rInput, rLocal, taken, pipe, drone, pubAfterStop>>
            ELSE /\ drone' = [drone EXCEPT ![s] = rLocal[s]]
                 /\ pubAfterStop' = IF rStopping
                                    THEN [pubAfterStop EXCEPT ![s] = @ + 1]
                                    ELSE pubAfterStop
                 /\ RelayGoto(rInput)
                 /\ UNCHANGED <<rLocal, taken, pipe>>
    /\ UNCHANGED envVars
    /\ UNCHANGED muxVars
    /\ UNCHANGED <<rStopping, idle>>
    /\ UNCHANGED decVars

\* IPCThread.stop
RelayStop ==
    /\ ~rStopping
    /\ rStopping' = TRUE
    /\ UNCHANGED envVars
    /\ UNCHANGED pipe
    /\ UNCHANGED muxVars
    /\ UNCHANGED <<rpc, rInput, rLocal, drone, taken, idle, pubAfterStop>>
    /\ UNCHANGED decVars

RelayStep ==
    \/ RelayTop
    \/ RelaySelect
    \/ \E s \in Sockets : RelayPoll(s)

\* ------------------------------------------------------- decode_navdata
\* The function followed byte by byte.  A byte is 0..255; a 32-bit word is
\* kept as its two 16-bit halves [lo, hi]; a float is kept as the exact
\* rational [num, den] it denotes, or as "inf" / "nan".
RECURSIVE Pow2(_)
Pow2(n) == IF n = 0 THEN 1 ELSE 2 * Pow2(n - 1)

\* calcsize("IIII"), calcsize("HH"), calcsize("c"), calcsize("IIfffIfffI")
calcsize_IIII == 16
calcsize_HH == 4
calcsize_c == 1
calcsize_demo == 40

\* unpack_from(fmt, buf, off) raises struct.error unless the buffer holds
\* calcsize(fmt) bytes from off on
CanUnpack(buf, off, n) == Len(buf) - off >= n

\* "H" at byte offset off: 16 bits, native (little-endian) byte order
U16(buf, off) == buf[off + 1] + 256 * buf[off + 2]

\* "I" at byte offset off: 32 bits, native (little-endian) byte order
U32(buf, off) == [lo |-> U16(buf, off), hi |-> U16(buf, off + 2)]

\* a mask that is applied but never shifted down
Bit_Unshifted(w, n) ==
    IF n < 16 THEN ((w.lo \div Pow2(n)) % 2) * Pow2(n)
    ELSE ((w.hi \div Pow2(n - 16)) % 2) * Pow2(n - 16)

\* `_[1] >> n & 1`
Bit(w, n) ==
    IF n < 16 THEN (w.lo \div Pow2(n)) % 2
    ELSE (w.hi \div Pow2(n - 16)) % 2

\* lines 29-58: the flags read out of the state word
drone_state(w) ==
    [fly_mask            |-> Bit(w, 0),
     video_mask          |-> Bit(w, 1),
     vision_mask         |-> Bit(w, 2),
     control_mask        |-> Bit(w, 3),
     altitude_mask       |-> Bit(w, 4),
     user_feedback_start |-> Bit(w, 5),
     command_mask        |-> Bit(w, 6),
     fw_file_mask        |-> Bit(w, 7),
     fw_ver_mask         |-> Bit(w, 8),
     fw_upd_mask         |-> Bit(w, 9),
     navdata_demo_mask   |-> Bit(w, 10),
     navdata_bootstrap   |-> Bit(w, 11),
     motors_mask         |-> Bit(w, 12),
     com_lost_mask       |-> Bit(w, 13),
     vbat_low            |-> Bit(w, 15),
     user_el             |-> Bit(w, 16),
     timer_elapsed       |-> Bit(w, 17),
     angles_out_of_range |-> Bit(w, 19),
     ultrasound_mask     |-> Bit(w, 21),
     cutout_mask         |-> Bit(w, 22),
     pic_version_mask    |-> Bit(w, 23),
     atcodec_thread_on   |-> Bit(w, 24),
     navdata_thread_on   |-> Bit(w, 25),
     video_thread_on     |-> Bit(w, 26),
     acq_thread_on       |-> Bit(w, 27),
     ctrl_watchdog_mask  |-> Bit(w, 28),
     adc_watchdog_mask   |-> Bit(w, 29),
     com_watchdog_mask   |-> Bit(w, 30),
     emergency_mask      |-> Bit(w, 31)]

\* m * 2^e as a fraction in lowest terms (m > 0)
RECURSIVE Scale(_, _)
Scale(m, e) ==
    IF e >= 0 THEN [num |-> m * Pow2(e), den |-> 1]
    ELSE IF m % 2 = 0 THEN Scale(m \div 2, e + 1)
    ELSE [num |-> m, den |-> Pow2(0 - e)]

\* "f" at byte offset off: IEEE-754 binary32, little-endian
F32(buf, off) ==
    LET b0 == buf[off + 1]
        b1 == buf[off + 2]
        b2 == buf[off + 3]
        b3 == buf[off + 4]
        neg == b3 \div 128 = 1
        e == (b3 % 128) * 2 + b2 \div 128
        m == (b2 % 128) * 65536 + b1 * 256 + b0
        mag == IF e = 0 THEN (IF m = 0 THEN [num |-> 0, den |-> 1]
                              ELSE Scale(m, 0 - 149))
               ELSE Scale(8388608 + m, e - 150)
    IN  IF e = 255
        THEN [kind |-> IF m = 0 THEN "inf" ELSE "nan", num |-> 0, den |-> 1]
        ELSE [kind |-> "num",
              num |-> IF neg THEN 0 - mag.num ELSE mag.num,
              den |-> mag.den]

\* a conversion that rounds down
PyInt_Floor(x) == x.num \div (x.den * 1000)

\* `int(x / 1000)` for a finite float x: int() drops the fraction, which
\* rounds towards zero
PyInt(x) ==
    LET q == (IF x.num < 0 THEN 0 - x.num ELSE x.num) \div (x.den * 1000)
    IN  IF x.num < 0 THEN 0 - q ELSE q

\* lines 77-83: the demo option's payload unpacked as "IIfffIfffI", zipped
\* with the field names, the three angles converted
demo(values) ==
    [ctrl_state |-> U32(values, 0),
     battery    |-> U32(values, 4),
     theta      |-> PyInt(F32(values, 8)),
     phi        |-> PyInt(F32(values, 12)),
     psi        |-> PyInt(F32(values, 16)),
     altitude   |-> U32(values, 20),
     vx         |-> F32(values, 24),
     vy         |-> F32(values, 28),
     vz         |-> F32(values, 32),
     num_frames |-> U32(values, 36)]

\* int() raises on a float that is not finite
AnglesFinite(values) ==
    \A o \in {8, 12, 16} : F32(values, o).kind = "num"

\* a dict that keeps the value a key already has
SetItem_KeepFirst(d, k, v) == d @@ (k :> v)

\* `data[id_nr] = values`
SetItem(d, k, v) == (k :> v) @@ d

\* the variables of the two processes
procVars == <<sock, sockOpen, arrived, faults, comPipe, stopSent, pipe,
              pc, inputready, data, decoded, stopping, exc, rcv, k0, nread,
              rpc, rInput, rLocal, rStopping, drone, taken, idle, pubAfterStop>>

\* lines 27-64: unpack the four header words, read the flags, build the dict
DecHeader ==
    /\ dpc = "header"
    /\ IF CanUnpack(packet, 0, calcsize_IIII)
       THEN /\ navdata' = [drone_state |-> drone_state(U32(packet, 4)),
                           header      |-> U32(packet, 0),
                           seq_nr      |-> U32(packet, 8),
                           vision_flag |-> U32(packet, 12),
                           options     |-> <<>>]
            /\ offset' = calcsize_IIII
            /\ dpc' = "loop"
       ELSE /\ dpc' = "raised"
            /\ UNCHANGED <<navdata, offset>>
    /\ UNCHANGED <<packet, input>>
    /\ UNCHANGED procVars

\* lines 65-86: one pass of `while 1`.  Only the "HH" read is inside the
\* try; a struct.error there breaks out to `return data`.  The payload is
\* then read byte by byte; range() of a negative number is empty.
DecRecord ==
    /\ dpc = "loop"
    /\ IF ~CanUnpack(packet, offset, calcsize_HH)
       THEN /\ dpc' = "returned"
            /\ UNCHANGED <<navdata, offset>>
       ELSE LET id_nr == U16(packet, offset)
                size  == U16(packet, offset + 2)
                off1  == offset + calcsize_HH
                n     == size - calcsize_HH
                count == IF n > 0 THEN n ELSE 0
                avail == (Len(packet) - off1) \div calcsize_c
            IN  IF avail < count
                THEN /\ dpc' = "raised"
                     /\ offset' = off1 + avail * calcsize_c
                     /\ UNCHANGED navdata
                ELSE LET values == SubSeq(packet, off1 + 1, off1 + count) IN
                     /\ offset' = off1 + count * calcsize_c
                     /\ IF id_nr = 0 /\ ~CanUnpack(values, 0, calcsize_demo)
                        THEN /\ dpc' = "raised"
                             /\ UNCHANGED navdata
                        ELSE IF id_nr = 0 /\ ~AnglesFinite(values)
                        THEN /\ dpc' = "raised"
                             /\ UNCHANGED navdata
                        ELSE /\ navdata' = [navdata EXCEPT !.options =
                                    SetItem(@, id_nr, IF id_nr = 0 THEN demo(values)
                                                      ELSE values)]
                             /\ UNCHANGED dpc
    /\ UNCHANGED <<packet, input>>
    /\ UNCHANGED procVars

DecNext == DecHeader \/ DecRecord

Next ==
    \/ \E s \in Sockets : Arrive(s)
    \/ SendStop
    \/ MuxStep
    \/ RelayStep
    \/ RelayStop

Spec == Init /\ [][Next]_vars

\* the Multiplexer's process is scheduled fairly; nothing is assumed of the
\* Relay, the consumer or the network
FairSpec == Spec /\ WF_vars(MuxStep)

\* the Relay's thread is scheduled fairly; nothing is assumed of the
\* Multiplexer, the consumer or the network
RelayFairSpec == Spec /\ WF_vars(RelayStep)

\* ------------------------------------------------- packets to decode
\* the encoder's side of the wire format, used to build the packets
LE16(n) == <<n % 256, n \div 256>>

\* byte i (0..3) of the little-endian word whose set bits are `bits`
ByteOf(bits, i) ==
    LET f[b \in 0..8] ==
            IF b = 8 THEN 0
            ELSE (IF 8 * i + b \in bits THEN Pow2(b) ELSE 0) + f[b + 1]
    IN  f[0]

WordBytes(bits) == <<ByteOf(bits, 0), ByteOf(bits, 1), ByteOf(bits, 2), ByteOf(bits, 3)>>

\* floats and their binary32 encodings (little-endian)
Flt(k, n, d, b) == [kind |-> k, num |-> n, den |-> d, bytes |-> b]
F_1500   == Flt("num", 1500, 1, <<0, 128, 187, 68>>)
F_m2500  == Flt("num", 0 - 2500, 1, <<0, 64, 28, 197>>)
F_999    == Flt("num", 999, 1, <<0, 192, 121, 68>>)
F_1999   == Flt("num", 1999, 1, <<0, 224, 249, 68>>)
F_m1999  == Flt("num", 0 - 1999, 1, <<0, 224, 249, 196>>)
F_0      == Flt("num", 0, 1, <<0, 0, 0, 0>>)
F_m999h  == Flt("num", 0 - 1999, 2, <<0, 224, 121, 196>>)
F_2500h  == Flt("num", 5001, 2, <<0, 72, 28, 69>>)
F_1h     == Flt("num", 3, 2, <<0, 0, 192, 63>>)
F_inf    == Flt("inf", 0, 1, <<0, 0, 128, 127>>)

TestAngles == <<F_1500, F_m2500, F_999, F_1999, F_m1999, F_0, F_m999h, F_2500h>>

\* the seven demo fields that are not angles, as sent
DemoFixed ==
    [ctrl_state |-> {0, 17}, battery |-> {1, 4, 5},
     altitude |-> {3, 5, 6, 7, 8, 9}, vx |-> F_1h, vy |-> F_m2500, vz |-> F_0,
     num_frames |-> {1, 3, 5}]

\* a record as sent: tag, declared size, payload bytes, and for a demo
\* record the three angles its payload encodes
Rec(t, sz, p, a) == [tag |-> t, size |-> sz, payload |-> p, angles |-> a]

DemoPayload(a) ==
    WordBytes(DemoFixed.ctrl_state) \o WordBytes(DemoFixed.battery)
    \o a[1].bytes \o a[2].bytes \o a[3].bytes
    \o WordBytes(DemoFixed.altitude)
    \o DemoFixed.vx.bytes \o DemoFixed.vy.bytes \o DemoFixed.vz.bytes
    \o WordBytes(DemoFixed.num_frames)

DemoRec(a) == Rec(0, calcsize_HH + calcsize_demo, DemoPayload(a), a)

\* each test angle in each of the three positions
DemoRecs ==
    {DemoRec(<<TestAngles[i], TestAngles[(i % Len(TestAngles)) + 1],
               TestAngles[((i + 1) % Len(TestAngles)) + 1]>>) :
        i \in 1..Len(TestAngles)}

Templates ==
    DemoRecs \cup
    {DemoRec(<<F_1500, F_inf, F_0>>),
     Rec(999, 6, <<10, 20>>, <<>>),
     Rec(999, 7, <<30, 40, 50>>, <<>>),
     Rec(1, 5, <<7>>, <<>>),
     Rec(1, 4, <<>>, <<>>),
     Rec(1, 2, <<>>, <<>>),
     Rec(0, 3, <<>>, <<>>)}

MaxRecords == 2     \* records in a packet
MaxCut == 2         \* bytes cut off the end of a packet with records

RecSeqs == UNION {[1..n -> Templates] : n \in 0..MaxRecords}

\* state words: no bit, one bit, all bits but one, all bits
TestWords ==
    {{}, 0..31} \cup {{p} : p \in 0..31} \cup {(0..31) \ {p} : p \in 0..31}

\* lengths of packets that end inside the fixed header
ShortLens == {0, 1, 8, 15}

Encode(r) == LE16(r.tag) \o LE16(r.size) \o r.payload

RECURSIVE Concat(_)
Concat(rs) == IF rs = <<>> THEN <<>> ELSE Encode(Head(rs)) \o Concat(Tail(rs))

\* header word, state word, sequence number, vision flag, then the records
FullPacket(inp) ==
    <<136, 119, 102, 85>> \o WordBytes(inp.bits) \o <<7, 1, 0, 0>>
    \o <<1, 0, 0, 0>> \o Concat(inp.recs)

BuildPacket(inp) == SubSeq(FullPacket(inp), 1, Len(FullPacket(inp)) - inp.cut)

Inputs ==
    {[bits |-> w, recs |-> <<>>, cut |-> 0] : w \in TestWords}
    \cup {[bits |-> {0}, recs |-> <<>>, cut |-> calcsize_IIII - l] : l \in ShortLens}
    \cup {[bits |-> {0}, recs |-> rs, cut |-> c] : rs \in RecSeqs, c \in 0..MaxCut}

\* decode_navdata is called on a packet
DecInit ==
    /\ ProcInit
    /\ \E inp \in Inputs :
         /\ input = inp
         /\ packet = BuildPacket(inp)
    /\ offset = 0
    /\ navdata = NoNavdata
    /\ dpc = "header"

\* decode_navdata alone, on every packet of Inputs
DecSpec == DecInit /\ [][DecNext]_vars

\* ======================================================== properties
SendPcs == {"nav_send", "video_send"}
RecvPcs == {"nav_recv", "video_recv"}
LoopPcs == {"select"} \cup RecvPcs \cup SendPcs

\* the Multiplexer performs a receive on socket s in this step
RecvStep(s) == pc = s \o "_recv" /\ (nread' # nread \/ pc' # pc)

\* the Multiplexer's send on pipe s completes in this step
SendStep(s) == Len(pipe'[s]) > Len(pipe[s])

\* ---- C1
\* C1: after every completed Relay cycle drone.navdata (drone.image) is
\* unset or is the value the Relay took off the nav (video) pipe most
\* recently, and what is published never goes back to a value the Relay
\* took earlier than the one already published.
C1_Freshness ==
    /\ [](rpc = "top" =>
            \A s \in Sockets : drone[s] = NoItem \/ drone[s].idx = taken[s])
    /\ [][\A s \in Sockets : drone'[s].idx >= drone[s].idx]_vars

\* the Relay has completed cycles that published the second value it took
\* off the nav pipe and a value off the video pipe
C1_Witness ==
    /\ rpc = "top"
    /\ drone["nav"].idx >= 2
    /\ drone["video"].idx >= 1

\* ---- C2
\* C2 as stated: whenever the drain of a socket that had k >= 1 datagrams
\* queued has run until no datagram was available, all k were read and one
\* value, the decoding of the last datagram read, is being sent on the
\* socket's pipe.
C2_Original ==
    (k0 >= 1 /\ rcv = "EWOULDBLOCK")
    => /\ pc \in SendPcs
       /\ nread >= k0
       /\ \A s \in Sockets : pc = s \o "_send" => decoded[s] = decode(s, data).val

\* C2 amended: a drain that ends with "no data available" has read every
\* datagram that was queued when it started; a send happens only from the
\* socket's branch, once per branch, and only of the successful decoding of
\* `data`, which is the last datagram taken off that socket when the drain
\* read any; a failed decoding sends nothing.
C2_DrainToLatest ==
    /\ [](\A s \in Sockets : pc = s \o "_send" =>
            /\ rcv = "EWOULDBLOCK" => nread >= k0
            /\ nread >= 1 => /\ data.src = s
                             /\ data.seq = arrived[s] - Len(sock[s])
            /\ ~decode(s, data).raised
            /\ decoded[s] = decode(s, data).val)
    /\ [][\A s \in Sockets : SendStep(s) =>
            /\ pc = s \o "_send"
            /\ pc' # pc
            /\ pipe'[s] = Append(pipe[s], decode(s, data).val)]_vars

\* a drain that started with two datagrams queued has read both and is
\* sending the decoding of the second
C2_Witness ==
    /\ pc = "nav_send"
    /\ k0 >= 2
    /\ nread >= 2
    /\ decoded["nav"].seq_nr = 2

\* ---- C3
\* C3: a send of the Multiplexer never waits: whenever it is at a send, the
\* pipe can take the value.
C3_SendNeverBlocks ==
    \A s \in Sockets : pc = s \o "_send" => Len(pipe[s]) < PipeCapacity

\* ---- C4
\* C4 as stated: once the control signal has been sent, the Multiplexer
\* performs no receive on either socket.
C4_Original == [][stopSent => \A s \in Sockets : ~RecvStep(s)]_vars

\* C4 amended: once the Multiplexer has consumed the control signal, it
\* performs no receive on either socket.
C4_NoRecvAfterConsumed == [][stopping => \A s \in Sockets : ~RecvStep(s)]_vars

\* the signal has been consumed and run has returned while a datagram is
\* still queued on the nav socket
C4_Witness ==
    /\ stopping
    /\ pc = "done"
    /\ sock["nav"] # <<>>

\* ---- C5
\* C5: once the control signal has been sent, the Multiplexer eventually
\* leaves its loop and closes both sockets.
C5_StopLiveness ==
    stopSent ~> (pc = "done" /\ \A s \in Sockets : ~sockOpen[s])

\* ---- C6
\* C6: whenever run has ended, by the stop signal or by a decode failure,
\* both sockets are closed.
C6_SocketsReleased ==
    (pc = "done" \/ (pc = "crashed" /\ exc = "DecodeError"))
    => \A s \in Sockets : ~sockOpen[s]

\* ---- C7
\* C7: a decode failure leaves the Multiplexer in its loop.
C7_DecodeFailureKeepsLoop ==
    exc = "DecodeError" => pc \in LoopPcs

\* ---- C8
\* C8: every value sent on a pipe is the result of a successful decode of
\* the retained datagram, and once a decode has failed nothing is sent.
C8_OnlyDecodedValuesSent ==
    /\ [][\A s \in Sockets : SendStep(s) =>
            /\ exc = "none"
            /\ data.wf
            /\ ~decode(s, data).raised
            /\ pipe'[s][Len(pipe'[s])] = decode(s, data).val]_vars
    /\ [](exc # "none" => pc \notin SendPcs)

\* a decode has failed after an earlier datagram was decoded and sent
C8_Witness ==
    /\ exc = "DecodeError"
    /\ \E s \in Sockets : taken[s] + Len(pipe[s]) >= 1

\* ---- C9
\* C9: after a receive error other than "no data available" the Multiplexer
\* has left its loop: it does not go on to decode the retained datagram and
\* send the result.
C9_RecvErrorFatal ==
    rcv = "EOTHER" => pc \notin LoopPcs

\* ---- C10
\* C10: a Relay cycle whose select finds no pipe ready leaves drone.navdata
\* and drone.image as they were and returns to the top of the loop; the
\* fields change only when the Relay publishes, in the branch of a pipe,
\* the value it holds for that pipe.
C10_RelayIdempotence ==
    /\ [][(rpc = "select" /\ rpc' # rpc /\ \A s \in Sockets : pipe[s] = <<>>)
            => (drone' = drone /\ rpc' = "top")]_vars
    /\ [][\A s \in Sockets : drone'[s] # drone[s]
            => (rpc = s \o "_poll" /\ drone'[s] = rLocal[s])]_vars

\* the Relay is back at the top of its loop from an idle cycle, with both
\* fields published before
C10_Witness ==
    /\ rpc = "top"
    /\ idle
    /\ \A s \in Sockets : drone[s] # NoItem

\* ---- C11
\* C11: once stop() has set the flag, the Relay starts no new cycle when it
\* is at the top of its loop, it assigns each drone field at most once more
\* (the cycle in flight), a wait that finds no pipe ready brings it back to
\* the top, and it terminates and stays terminated.
C11_CooperativeStop ==
    /\ [][(rStopping /\ rpc = "top" /\ rpc' # rpc) => rpc' = "done"]_vars
    /\ [][(rStopping /\ rpc = "select" /\ rpc' # rpc
             /\ \A s \in Sockets : pipe[s] = <<>>) => rpc' = "top"]_vars
    /\ [](\A s \in Sockets : pubAfterStop[s] <= 1)
    /\ [][rpc = "done" => rpc' = "done"]_vars
    /\ (rStopping ~> rpc = "done")

\* the Relay has terminated after the cycle in flight at stop() assigned
\* drone.navdata once more
C11_Witness ==
    /\ rpc = "done"
    /\ pubAfterStop["nav"] = 1

\* ------------------------------------------- decode_navdata's claims
\* record r is as a sender builds it: the declared size covers the 4-byte
\* record header and the payload, a demo record carries the ten fields and
\* its angles are finite
WellFormed(r) ==
    /\ r.size = calcsize_HH + Len(r.payload)
    /\ r.tag = 0 => /\ Len(r.payload) = calcsize_demo
                    /\ \A i \in 1..Len(r.angles) : r.angles[i].kind = "num"

AllWellFormed == \A i \in 1..Len(input.recs) : WellFormed(input.recs[i])

\* the last record of the packet with tag t
LastWith(t) ==
    LET i == CHOOSE k \in 1..Len(input.recs) :
                 /\ input.recs[k].tag = t
                 /\ \A j \in (k + 1)..Len(input.recs) : input.recs[j].tag # t
    IN  input.recs[i]

\* the 32-bit word whose set bits are `bits`
WordOf(bits) ==
    [lo |-> ByteOf(bits, 0) + 256 * ByteOf(bits, 1),
     hi |-> ByteOf(bits, 2) + 256 * ByteOf(bits, 3)]

\* ---- C12
\* C12: decode on a byte slice shorter than the 16-byte fixed header does
\* not raise an exception to the caller (it reports a decode error as its
\* result).
C12_ShortPacketReported ==
    Len(packet) < calcsize_IIII => dpc # "raised"

\* ---- C13
\* the packet's last record keeps its 4-byte header but has lost payload
\* bytes; every record is otherwise well-formed
TruncatedFinal ==
    /\ input.recs # <<>>
    /\ AllWellFormed
    /\ input.cut >= 1
    /\ input.cut <= Len(input.recs[Len(input.recs)].payload)

\* C13: on a packet whose last record header declares a size larger than
\* the bytes that remain, decode stops at that record without raising.
C13_TruncatedFinalRecord ==
    TruncatedFinal => dpc # "raised"

\* ---- C14
\* a record declares a size below 4; the packet is otherwise well-formed
\* and complete
SmallSizeInput ==
    /\ input.cut = 0
    /\ \E i \in 1..Len(input.recs) : input.recs[i].size < calcsize_HH
    /\ \A i \in 1..Len(input.recs) :
         \/ WellFormed(input.recs[i])
         \/ input.recs[i].size < calcsize_HH /\ input.recs[i].payload = <<>>

\* C14: a record with a declared size below 4 is not fatal to the whole
\* packet, for every tag ID including the demo tag 0: decode does not raise.
C14_SmallSizeConfined ==
    SmallSizeInput => dpc # "raised"

\* ---- C15
\* the flag at each bit position of the state word, 0 first; three
\* positions carry no flag
FlagNames ==
    <<"fly_mask", "video_mask", "vision_mask", "control_mask",
      "altitude_mask", "user_feedback_start", "command_mask", "fw_file_mask",
      "fw_ver_mask", "fw_upd_mask", "navdata_demo_mask", "navdata_bootstrap",
      "motors_mask", "com_lost_mask", "unused", "vbat_low",
      "user_el", "timer_elapsed", "unused", "angles_out_of_range",
      "unused", "ultrasound_mask", "cutout_mask", "pic_version_mask",
      "atcodec_thread_on", "navdata_thread_on", "video_thread_on",
      "acq_thread_on", "ctrl_watchdog_mask", "adc_watchdog_mask",
      "com_watchdog_mask", "emergency_mask">>

FlagPositions == (0..31) \ {14, 18, 20}

\* C15: once the header is unpacked, the flag set holds exactly the named
\* flags, and each flag equals the bit of the state word at its position
\* (0-13, 15, 16, 17, 19, 21-31) whatever the other bits are; so a word with
\* one of those bits set yields that flag and no other, and bits 14, 18 and
\* 20 influence no flag.
C15_StateWordFlags ==
    dpc \in {"loop", "returned"} =>
        /\ DOMAIN navdata.drone_state = {FlagNames[p + 1] : p \in FlagPositions}
        /\ \A p \in FlagPositions :
             navdata.drone_state[FlagNames[p + 1]] = IF p \in input.bits THEN 1 ELSE 0

C15_Witness ==
    /\ dpc = "returned"
    /\ input.bits = (0..31) \ {18}
    /\ navdata.drone_state.angles_out_of_range = 1
    /\ navdata.drone_state.timer_elapsed = 1

\* ---- C16
\* C16: for a complete packet of well-formed records decode returns, and
\* the option map has an entry for exactly the tag IDs that occur (none for
\* a packet with no records); the entry of a tag ID other than 0 is the
\* payload bytes of the last record with that tag ID, unmodified and in
\* order, and the entry of tag 0 is the decoding of the last demo record.
C16_OptionMap ==
    (input.cut = 0 /\ AllWellFormed) =>
        /\ dpc # "raised"
        /\ dpc = "returned" =>
             /\ DOMAIN navdata.options =
                    {input.recs[i].tag : i \in 1..Len(input.recs)}
             /\ \A t \in DOMAIN navdata.options :
                    navdata.options[t] = IF t = 0 THEN demo(LastWith(t).payload)
                                         ELSE LastWith(t).payload

C16_Witness ==
    /\ dpc = "returned"
    /\ input.cut = 0
    /\ input.recs = <<Rec(999, 6, <<10, 20>>, <<>>), Rec(999, 7, <<30, 40, 50>>, <<>>)>>
    /\ navdata.options[999] = <<30, 40, 50>>

\* ---- C17
\* sign(r) * floor(|r| / 1000) for the float r = f.num / f.den
Trunc(f) ==
    LET q == (IF f.num < 0 THEN 0 - f.num ELSE f.num) \div (f.den * 1000)
    IN  IF f.num < 0 THEN 0 - q ELSE q

\* a float as sent, without its encoding
Val(f) == [kind |-> f.kind, num |-> f.num, den |-> f.den]

C18_NoStaleOrCrossStream ==
    \A s \in Sockets : pc = s \o "_send" => (nread >= 1 /\ data.src = s)

\* ---- C19
\* the values of stream s from the consumer-visible one to the one being
\* sent: published, held by the Relay, pending on the pipe, at the send
Chain(s) ==
    <<drone[s].val, rLocal[s].val>> \o pipe[s]
        \o (IF pc = s \o "_send" THEN <<decoded[s]>> ELSE <<>>)

\* C19: within a stream nothing is reordered: from the consumer-visible
\* value through the pipe to the value being sent, values decoded from the
\* same socket's datagrams are in the order in which the datagrams were
\* read; the Relay takes values off the front of the pipe, and what it
\* publishes never goes back in that order.
C19_NoReordering ==
    /\ [](\A s \in Sockets : \A i, j \in 1..Len(Chain(s)) :
            (i < j /\ Chain(s)[i].from = Chain(s)[j].from)
            => Chain(s)[i].seq_nr <= Chain(s)[j].seq_nr)
    /\ [][\A s \in Sockets : taken'[s] # taken[s] =>
            /\ rLocal'[s].val = Head(pipe[s])
            /\ pipe'[s] = Tail(pipe[s])]_vars
    /\ [][\A s \in Sockets : drone'[s].val.from = drone[s].val.from =>
            drone'[s].val.seq_nr >= drone[s].val.seq_nr]_vars

\* the second nav value is consumer-visible while a third is on its way
C19_Witness ==
    /\ drone["nav"].val.seq_nr = 2
    /\ drone["nav"].idx = 2
    /\ Len(pipe["nav"]) = 1
    /\ pipe["nav"][1].seq_nr = 3

\* ---- C20
\* C20: once the Multiplexer has consumed the control signal it is in its
\* teardown, and no step changes the retained datagram, the decoded values,
\* the sockets' queues from its side, or adds a value to a pipe.
C20_NoDataPathAfterStop ==
    /\ [](stopping => pc \in {"close", "done"})
    /\ [][stopping =>
            /\ data' = data
            /\ decoded' = decoded
            /\ exc' = exc
            /\ \A s \in Sockets : /\ Len(sock'[s]) >= Len(sock[s])
                                  /\ Len(pipe'[s]) <= Len(pipe[s])]_vars

\* the signal has been consumed, the sockets are not yet closed, and a
\* datagram is waiting on the video socket
C20_Witness ==
    /\ stopping
    /\ pc = "close"
    /\ sock["video"] # <<>>
====
